---------------------------- MODULE Spec2Model ----------------------------
(***************************************************************************)
(* Model of src/src/chords.rs: the Chord value type (a canonical string of *)
(* '+'-joined keys), its parser, and the Chords dictionary with its flat   *)
(* text file format.                                                       *)
(*                                                                         *)
(* A Rust String is a sequence of one-character strings; a char is a      *)
(* one-character string.  Option<usize> None is 0 (positions are 1-based). *)
(*                                                                         *)
(* Specifications:                                                         *)
(*   Spec       a dictionary read from an empty file, edited with          *)
(*              Chords::insert and remove of chords typed key by key,      *)
(*              written and read back                                      *)
(*   SpecChord  a Chord from Chord::default or from_str, edited with       *)
(*              Chord::insert and Chord::clear over a wider set of keys    *)
(*   SpecParse  Chord::from_str applied to every text up to MaxText        *)
(*   SpecFile   read_from_file applied to every file content up to         *)
(*              MaxFile (or to no file), then written and read again       *)
(***************************************************************************)
EXTENDS Naturals, Sequences, FiniteSets

VARIABLES
    chord,      \* the Chord being edited (Chord.0)
    prev,       \* Chord.0 before the last Chord operation
    key,        \* the argument of the last Chord::insert (<<>> when none)
    ret,        \* the value the last Chord::insert returned
    accepted,   \* history: the upper-cased letter keys passed to insert so far
    origin,     \* how the Chord was constructed: "default" or "parsed"
    text,       \* the argument of Chord::from_str
    parsed,     \* the Result of Chord::from_str(text)
    dict,       \* the Chords dictionary (Chords.0, a BTreeMap<Chord, String>)
    file,       \* the dictionary file at the path: does it exist, its content
    loaded,     \* the IoResult of the last Chords::read_from_file
    saved,      \* history: the dictionary as it was at the last write_to_file
    out,        \* the Option<String> the last Chords::insert or remove returned
    op,         \* the last call on the dictionary: "insert", "remove" or "none"
    it,         \* the IntoIter of the last Chords::iter: the pairs it has left
    yielded,    \* the pairs taken from that IntoIter so far
    search,     \* Tui.search
    rows,       \* Tui.rows
    selected,   \* Tui.table_state.selected()
    event,      \* the Event the event loop read last
    pc          \* position of the caller

chordVars == <<chord, prev, key, ret, accepted, origin>>

parseVars == <<text, parsed>>

dictVars == <<dict, file, loaded, saved, out, op>>

iterVars == <<it, yielded>>

tuiVars == <<search, rows, selected, event>>

vars == <<chordVars, parseVars, dictVars, iterVars, tuiVars, pc>>

---------------------------------------------------------------------------
(* Bounds *)

\* longest text handed to Chord::from_str
MaxText == 5

\* longest content of the dictionary file that is read
MaxFile == 5

\* most entries the dictionary is grown to by Chords::insert
MaxEntries == 2

---------------------------------------------------------------------------
(* Characters *)

Lower == <<"a","b","c","d","e","f","g","h","i","j","k","l","m",
           "n","o","p","q","r","s","t","u","v","w","x","y","z">>

Upper == <<"A","B","C","D","E","F","G","H","I","J","K","L","M",
           "N","O","P","Q","R","S","T","U","V","W","X","Y","Z">>

IndexIn(seq, c) == CHOOSE i \in 1..Len(seq) : seq[i] = c

is_ascii_lowercase(c) == \E i \in 1..Len(Lower) : Lower[i] = c

is_ascii_uppercase(c) == \E i \in 1..Len(Upper) : Upper[i] = c

to_ascii_uppercase(c) ==
    IF is_ascii_lowercase(c) THEN Upper[IndexIn(Lower, c)] ELSE c

\* the character's code point (the order of char and of String bytes)
Code(c) ==
    IF is_ascii_uppercase(c) THEN 64 + IndexIn(Upper, c)
    ELSE IF is_ascii_lowercase(c) THEN 96 + IndexIn(Lower, c)
    ELSE CASE c = "\t" -> 9
           [] c = "\n" -> 10
           [] c = "\f" -> 12
           [] c = "\r" -> 13
           [] c = " "  -> 32
           [] c = "+"  -> 43
           [] c = "/"  -> 47
           [] c = "1"  -> 49
           [] c = ":"  -> 58

\* char::is_whitespace, on the characters of the model
is_whitespace(c) == c \in {" ", "\t", "\n", "\f", "\r"}

---------------------------------------------------------------------------
(* String operations of the standard library, as the code uses them *)

Min(S) == CHOOSE x \in S : \A y \in S : x <= y

\* str::find: position of the first character the pattern matches, 0 for
\* None; the pattern is given as the set of characters it matches
find(s, pattern) ==
    LET hits == {i \in 1..Len(s) : s[i] \in pattern}
    IN  IF hits = {} THEN 0 ELSE Min(hits)

\* the characters of s
CharsOf(s) == {s[i] : i \in 1..Len(s)}

contains(s, c) == \E i \in 1..Len(s) : s[i] = c

insert_str(s, position, t) ==
    SubSeq(s, 1, position - 1) \o t \o SubSeq(s, position, Len(s))

RECURSIVE split(_, _)
split(s, sep) ==
    LET position == find(s, {sep})
    IN  IF position = 0 THEN <<s>>
        ELSE <<SubSeq(s, 1, position - 1)>>
                 \o split(SubSeq(s, position + 1, Len(s)), sep)

trim(s) ==
    LET keep == {i \in 1..Len(s) : ~is_whitespace(s[i])}
    IN  IF keep = {} THEN <<>>
        ELSE SubSeq(s, Min(keep), CHOOSE i \in keep : \A j \in keep : j <= i)

RECURSIVE join(_, _)
join(strs, sep) ==
    IF strs = <<>> THEN <<>>
    ELSE IF Len(strs) = 1 THEN strs[1]
    ELSE strs[1] \o sep \o join(Tail(strs), sep)

\* char::from_str: Ok only for a string of exactly one char
Ok(v) == [ok |-> TRUE, value |-> v]

Err == [ok |-> FALSE, value |-> <<>>]

char_from_str(s) == IF Len(s) = 1 THEN Ok(s[1]) ELSE Err

\* BTreeSet<char>::iter: the elements in ascending order
RECURSIVE BTreeSetIter(_)
BTreeSetIter(S) ==
    IF S = {} THEN <<>>
    ELSE LET m == CHOOSE x \in S : \A y \in S : Code(x) <= Code(y)
         IN  <<m>> \o BTreeSetIter(S \ {m})

---------------------------------------------------------------------------
(* Chord *)

\* Chord::default
default == <<>>

\* Chord::insert writing "+<key>" where the code writes "<key>+"
insert_SeparatorFirst(self, k) ==
    LET K == to_ascii_uppercase(k)
    IN  IF ~is_ascii_uppercase(K) \/ contains(self, K)
        THEN [chord |-> self, ret |-> FALSE]
        ELSE IF self = <<>>
        THEN [chord |-> <<K>>, ret |-> TRUE]
        ELSE LET position == find(self, {ch \in CharsOf(self) : ch # "+" /\ Code(K) < Code(ch)})
             IN  IF position # 0
                 THEN [chord |-> insert_str(self, position, <<"+", K>>), ret |-> TRUE]
                 ELSE [chord |-> self \o <<"+", K>>, ret |-> TRUE]

\* Chord::insert without the search for the sorted position: always appends
insert_PushOnly(self, k) ==
    LET K == to_ascii_uppercase(k)
    IN  IF ~is_ascii_uppercase(K) \/ contains(self, K)
        THEN [chord |-> self, ret |-> FALSE]
        ELSE IF self = <<>>
        THEN [chord |-> <<K>>, ret |-> TRUE]
        ELSE [chord |-> self \o <<"+", K>>, ret |-> TRUE]

\* Chord::insert testing the key for presence before folding its case
insert_ContainsUnfolded(self, k) ==
    LET K == to_ascii_uppercase(k)
    IN  IF ~is_ascii_uppercase(K) \/ contains(self, k)
        THEN [chord |-> self, ret |-> FALSE]
        ELSE IF self = <<>>
        THEN [chord |-> <<K>>, ret |-> TRUE]
        ELSE LET position == find(self, {ch \in CharsOf(self) : ch # "+" /\ Code(K) < Code(ch)})
             IN  IF position # 0
                 THEN [chord |-> insert_str(self, position, <<K, "+">>), ret |-> TRUE]
                 ELSE [chord |-> self \o <<"+", K>>, ret |-> TRUE]

\* Chord::insert: the new Chord.0 and the returned bool
insert(self, k) ==
    LET K == to_ascii_uppercase(k)
    IN  IF ~is_ascii_uppercase(K) \/ contains(self, K)
        THEN [chord |-> self, ret |-> FALSE]
        ELSE IF self = <<>>
        THEN [chord |-> <<K>>, ret |-> TRUE]
        ELSE LET position == find(self, {ch \in CharsOf(self) : ch # "+" /\ Code(K) < Code(ch)})
             IN  IF position # 0
                 THEN [chord |-> insert_str(self, position, <<K, "+">>), ret |-> TRUE]
                 ELSE [chord |-> self \o <<"+", K>>, ret |-> TRUE]

\* Chord::as_str
as_str(self) == self

\* Chord::clear
clear(self) == <<>>

\* Chord::from_str without the case folding of each key
from_str_NoFold(string) ==
    LET segs  == split(string, "+")
        chars == [i \in 1..Len(segs) |-> char_from_str(trim(segs[i]))]
    IN  IF \E i \in 1..Len(segs) : ~chars[i].ok
        THEN Err
        ELSE LET chords == {chars[i].value : i \in 1..Len(segs)}
             IN  Ok(join([i \in 1..Cardinality(chords) |-> <<BTreeSetIter(chords)[i]>>],
                         <<"+">>))

\* Chord::from_str without the trim of each segment
from_str_NoTrim(string) ==
    LET segs  == split(string, "+")
        chars == [i \in 1..Len(segs) |-> char_from_str(segs[i])]
    IN  IF \E i \in 1..Len(segs) : ~chars[i].ok
        THEN Err
        ELSE LET chords == {to_ascii_uppercase(chars[i].value) : i \in 1..Len(segs)}
             IN  Ok(join([i \in 1..Cardinality(chords) |-> <<BTreeSetIter(chords)[i]>>],
                         <<"+">>))

\* Chord::from_str joining the keys without the separator
from_str_JoinNoSeparator(string) ==
    LET segs  == split(string, "+")
        chars == [i \in 1..Len(segs) |-> char_from_str(trim(segs[i]))]
    IN  IF \E i \in 1..Len(segs) : ~chars[i].ok
        THEN Err
        ELSE LET chords == {to_ascii_uppercase(chars[i].value) : i \in 1..Len(segs)}
             IN  Ok(join([i \in 1..Cardinality(chords) |-> <<BTreeSetIter(chords)[i]>>],
                         <<>>))

\* impl FromStr for Chord
from_str(string) ==
    LET segs  == split(string, "+")
        chars == [i \in 1..Len(segs) |-> char_from_str(trim(segs[i]))]
    IN  IF \E i \in 1..Len(segs) : ~chars[i].ok
        THEN Err
        ELSE LET chords == {to_ascii_uppercase(chars[i].value) : i \in 1..Len(segs)}
             IN  Ok(join([i \in 1..Cardinality(chords) |-> <<BTreeSetIter(chords)[i]>>],
                         <<"+">>))

---------------------------------------------------------------------------
(* Chords *)

\* Option
None == [some |-> FALSE, value |-> <<>>]

Some(v) == [some |-> TRUE, value |-> v]

\* BTreeMap::new
EmptyMap == [c \in {} |-> <<>>]

\* a path where read_to_string fails
NoFile == [exists |-> FALSE, content |-> <<>>]

File(content) == [exists |-> TRUE, content |-> content]

IoOk(v) == [ok |-> TRUE, value |-> v]

IoErr == [ok |-> FALSE, value |-> EmptyMap]

\* Ord for Chord (derived: the order of String, bytewise lexicographic)
ChordLess(a, b) ==
    \E i \in 1..(Len(a) + 1) :
        /\ \A j \in 1..(i - 1) : j <= Len(b) /\ a[j] = b[j]
        /\ \/ i = Len(a) + 1 /\ i <= Len(b)
           \/ i <= Len(a) /\ i <= Len(b) /\ Code(a[i]) < Code(b[i])

\* BTreeMap::iter: the keys in ascending order
RECURSIVE BTreeMapKeys(_)
BTreeMapKeys(S) ==
    IF S = {} THEN <<>>
    ELSE LET m == CHOOSE x \in S : \A y \in S \ {x} : ChordLess(x, y)
         IN  <<m>> \o BTreeMapKeys(S \ {m})

\* BTreeMap::insert returning the value stored instead of the one replaced
map_insert_ReturnsNew(m, k, v) ==
    [map |-> [c \in DOMAIN m \cup {k} |-> IF c = k THEN v ELSE m[c]],
     old |-> IF k \in DOMAIN m THEN Some(v) ELSE None]

\* BTreeMap::remove returning the value and keeping the entry
map_remove_KeepsEntry(m, k) ==
    [map |-> m,
     old |-> IF k \in DOMAIN m THEN Some(m[k]) ELSE None]

\* BTreeMap::insert: the new map and the value replaced
map_insert(m, k, v) ==
    [map |-> [c \in DOMAIN m \cup {k} |-> IF c = k THEN v ELSE m[c]],
     old |-> IF k \in DOMAIN m THEN Some(m[k]) ELSE None]

\* BTreeMap::remove: the new map and the value removed
map_remove(m, k) ==
    [map |-> [c \in DOMAIN m \ {k} |-> m[c]],
     old |-> IF k \in DOMAIN m THEN Some(m[k]) ELSE None]

\* the closure keeping the word as it stands in the line
line_entry_NoTrim(line) ==
    LET parts == split(line, ":")
        c     == from_str(parts[1])
    IN  IF ~c.ok THEN None
        ELSE IF Len(parts) < 2 THEN None
        ELSE Some([chord |-> c.value, word |-> parts[2]])

\* the closure of read_from_file's filter_map: the entry of one line
line_entry(line) ==
    LET parts == split(line, ":")
        c     == from_str(parts[1])
    IN  IF ~c.ok THEN None
        ELSE IF Len(parts) < 2 THEN None
        ELSE Some([chord |-> c.value, word |-> trim(parts[2])])

\* collect keeping the first pair of a key
collect_map_FirstWins(items) ==
    LET good == {i \in 1..Len(items) : items[i].some}
    IN  [c \in {items[i].value.chord : i \in good} |->
            items[CHOOSE i \in good :
                    /\ items[i].value.chord = c
                    /\ \A j \in good : items[j].value.chord = c => i <= j].value.word]

\* collect into a BTreeMap: a later pair replaces an earlier one of its key
collect_map(items) ==
    LET good == {i \in 1..Len(items) : items[i].some}
    IN  [c \in {items[i].value.chord : i \in good} |->
            items[CHOOSE i \in good :
                    /\ items[i].value.chord = c
                    /\ \A j \in good : items[j].value.chord = c => j <= i].value.word]

\* read_from_file keeping nothing when one line has no entry
read_from_file_AllOrNothing(f) ==
    IF ~f.exists THEN IoErr
    ELSE LET lines == split(f.content, "\n")
             items == [i \in 1..Len(lines) |-> line_entry(lines[i])]
         IN  IF \E i \in 1..Len(lines) : ~items[i].some
             THEN IoOk(EmptyMap)
             ELSE IoOk(collect_map(items))

\* Chords::read_from_file
read_from_file(f) ==
    IF ~f.exists THEN IoErr
    ELSE LET lines == split(f.content, "\n")
         IN  IoOk(collect_map([i \in 1..Len(lines) |-> line_entry(lines[i])]))

RECURSIVE concat(_)
concat(strs) == IF strs = <<>> THEN <<>> ELSE strs[1] \o concat(Tail(strs))

\* write_to_file with the format string "{chord}:{word}\n"
write_to_file_NoSpace(self) ==
    LET keys == BTreeMapKeys(DOMAIN self)
    IN  concat([i \in 1..Len(keys) |->
                   as_str(keys[i]) \o <<":">> \o self[keys[i]] \o <<"\n">>])

\* Chords::write_to_file: the content written
write_to_file(self) ==
    LET keys == BTreeMapKeys(DOMAIN self)
    IN  concat([i \in 1..Len(keys) |->
                   as_str(keys[i]) \o <<":", " ">> \o self[keys[i]] \o <<"\n">>])

\* the keys ordered by their number of keys first
RECURSIVE KeysShortestFirst(_)
KeysShortestFirst(S) ==
    IF S = {} THEN <<>>
    ELSE LET m == CHOOSE x \in S : \A y \in S \ {x} :
                      \/ Len(x) < Len(y)
                      \/ Len(x) = Len(y) /\ ChordLess(x, y)
         IN  <<m>> \o KeysShortestFirst(S \ {m})

\* Chords::iter with the pairs ordered by the number of keys of the chord
iter_ShortestFirst(self) ==
    LET keys == KeysShortestFirst(DOMAIN self)
    IN  [self  |-> self,
         items |-> [i \in 1..Len(keys) |-> <<keys[i], self[keys[i]]>>]]

\* Chords::iter moving the map out of the dictionary instead of cloning it
iter_TakesMap(self) ==
    LET keys == BTreeMapKeys(DOMAIN self)
    IN  [self  |-> EmptyMap,
         items |-> [i \in 1..Len(keys) |-> <<keys[i], self[keys[i]]>>]]

\* BTreeMap::clone
clone(m) == m

\* BTreeMap::into_iter: the (key, value) pairs in ascending order of the keys
into_iter(m) ==
    LET keys == BTreeMapKeys(DOMAIN m)
    IN  [i \in 1..Len(keys) |-> <<keys[i], m[keys[i]]>>]

\* Chords::iter(&self): the dictionary after the call and the pairs the
\* returned iterator owns
iter(self) ==
    [self  |-> self,
     items |-> into_iter(clone(self))]

---------------------------------------------------------------------------
(* Inputs *)

\* the characters passed to Chord::insert
Keys == {"a", "b", "c", "z", "A", "B", "C", "Z", "/", "+", "1", " "}

\* the characters of the texts passed to Chord::from_str
TextChars == {"a", "A", "b", "B", "+", " ", "1"}

RECURSIVE Strings(_, _)
Strings(alphabet, n) ==
    IF n = 0 THEN {<<>>}
    ELSE LET shorter == Strings(alphabet, n - 1)
         IN  shorter \cup {Append(s, c) : s \in {t \in shorter : Len(t) = n - 1},
                                          c \in alphabet}

Texts == Strings(TextChars, MaxText)

\* the chords Chord::from_str returns for the texts
ParsedChords == {from_str(t).value : t \in {u \in Texts : from_str(u).ok}}

NoKey == <<>>

\* TableState::selected: no row, or the index of a row
NoRow == [some |-> FALSE, value |-> 0]

RowAt(n) == [some |-> TRUE, value |-> n]

\* no Event read yet
NoEvent == [type |-> "none", kind |-> "none", code |-> "none", char |-> "", control |-> FALSE]

\* the characters of the dictionary files that are read
FileChars == {"a", "B", "+", ":", " ", "\n"}

FileContents == Strings(FileChars, MaxFile)

\* the keys typed into the chord that is stored in the dictionary
DictKeys == {"a", "B"}

\* the words stored with Chords::insert
Words == {<<"x">>, <<"x", ":", "y">>, <<" ", "x">>}

\* the texts parsed into the chords of the iterated dictionary
ChordTexts == {<<"B">>, <<"B", "+", "a">>}

\* the words inserted into the iterated dictionary
IterWords == {<<"x">>, <<"y">>}

\* the files the iterated dictionary is loaded from
StartFiles == {<<>>, <<"B", ":", "y", "\n", "B", "+", "a", ":", "x">>}

\* the lines the files of several lines are made of
LinePool ==
    {<<"B", "+", "a", ":", "x">>,
     <<"a", "+", "B", ":", "y">>,
     <<"B", ":", "x">>,
     <<" ", "b", " ", ":", "y">>,
     <<"B", ":", "y", ":", "x">>,
     <<"a", "a", ":", "x">>,
     <<"x">>}

\* the number of lines of these files
MaxLines == 3

\* the sequences of 1 to n lines of the pool
RECURSIVE LineSeqs(_)
LineSeqs(n) ==
    IF n = 0 THEN {}
    ELSE LET shorter == LineSeqs(n - 1)
         IN  {<<l>> : l \in LinePool}
                 \cup shorter
                 \cup {Append(ls, l) : ls \in {t \in shorter : Len(t) = n - 1},
                                       l \in LinePool}

\* the contents of these files: the lines separated by '\n'
LineContents == {join(ls, <<"\n">>) : ls \in LineSeqs(MaxLines)}

\* the variables a specification does not use keep these values
IdleChord ==
    /\ chord = default
    /\ prev = default
    /\ key = NoKey
    /\ ret = FALSE
    /\ accepted = {}
    /\ origin = "default"

IdleParse ==
    /\ text = <<>>
    /\ parsed = Err

IdleDict ==
    /\ dict = EmptyMap
    /\ file = NoFile
    /\ loaded = IoErr
    /\ saved = EmptyMap
    /\ out = None
    /\ op = "none"

IdleIter ==
    /\ it = <<>>
    /\ yielded = <<>>

IdleTui ==
    /\ search = <<>>
    /\ rows = <<>>
    /\ selected = NoRow
    /\ event = NoEvent

---------------------------------------------------------------------------
(* Chord editing: a Chord from Chord::default or from_str, then            *)
(* Chord::insert and Chord::clear                                          *)

InitChord ==
    /\ \/ chord = default /\ origin = "default"
       \/ chord \in ParsedChords /\ origin = "parsed"
    /\ prev = chord
    /\ key = NoKey
    /\ ret = FALSE
    /\ accepted = {}
    /\ IdleParse
    /\ IdleDict
    /\ IdleIter
    /\ IdleTui
    /\ pc = "edit"

ChordInsert(k) ==
    /\ pc \in {"edit", "loaded"}
    /\ chord' = insert(chord, k).chord
    /\ ret' = insert(chord, k).ret
    /\ prev' = chord
    /\ key' = <<k>>
    /\ accepted' = IF is_ascii_uppercase(to_ascii_uppercase(k))
                   THEN accepted \cup {to_ascii_uppercase(k)}
                   ELSE accepted
    /\ UNCHANGED <<origin, parseVars, dictVars, pc, iterVars, tuiVars>>

ChordClear ==
    /\ pc \in {"edit", "loaded"}
    /\ chord' = clear(chord)
    /\ prev' = chord
    /\ key' = NoKey
    /\ ret' = FALSE
    /\ accepted' = {}
    /\ origin' = "default"
    /\ UNCHANGED <<parseVars, dictVars, pc, iterVars, tuiVars>>

\* chord.as_str().parse::<Chord>()
Reparse ==
    /\ pc \in {"edit", "loaded"}
    /\ text' = as_str(chord)
    /\ parsed' = from_str(as_str(chord))
    /\ UNCHANGED <<chordVars, dictVars, pc, iterVars, tuiVars>>

NextChord ==
    \/ \E k \in Keys : ChordInsert(k)
    \/ ChordClear
    \/ Reparse

SpecChord == InitChord /\ [][NextChord]_vars

---------------------------------------------------------------------------
(* Claims about Chord::insert, checked under SpecChord *)

\* the keys of a canonical string: its characters other than the separator
KeySet(s) == {s[i] : i \in 1..Len(s)} \ {"+"}

\* s is empty, or uppercase letters at the odd positions, '+' at the even
\* ones, ending with a letter
IsLettersJoinedByPlus(s) ==
    \/ s = <<>>
    \/ /\ Len(s) % 2 = 1
       /\ \A i \in 1..Len(s) :
            IF i % 2 = 1 THEN is_ascii_uppercase(s[i]) ELSE s[i] = "+"

NoLetterTwice(s) ==
    \A i, j \in 1..Len(s) : (i # j /\ s[i] # "+" /\ s[j] # "+") => s[i] # s[j]

StrictlyAscending(s) ==
    \A i, j \in 1..Len(s) :
        (i < j /\ s[i] # "+" /\ s[j] # "+") => Code(s[i]) < Code(s[j])

\* the set S sorted ascending and joined with '+': position 2r-1 holds the
\* element with exactly r-1 smaller elements of S
ReferenceForm(S) ==
    [i \in 1..(IF S = {} THEN 0 ELSE 2 * Cardinality(S) - 1) |->
        IF i % 2 = 0 THEN "+"
        ELSE CHOOSE x \in S :
                Cardinality({y \in S : Code(y) < Code(x)}) = (i - 1) \div 2]

\* C1: from the empty chord, after any sequence of Chord::insert calls, the
\* canonical string is empty or uppercase letters A-Z separated by exactly
\* one '+' (none leading, trailing or doubled), with no letter twice and
\* the letters in strictly ascending character-code order.
C1_CanonicalForm ==
    origin = "default" =>
        /\ IsLettersJoinedByPlus(as_str(chord))
        /\ NoLetterTwice(as_str(chord))
        /\ StrictlyAscending(as_str(chord))

\* C1's case: an insert put a new key in front of a chord of two or more keys
C1_Witness ==
    /\ origin = "default"
    /\ key # NoKey
    /\ ret
    /\ Len(prev) >= 3
    /\ chord[1] = to_ascii_uppercase(key[1])

\* C2: from the empty chord, after any sequence of Chord::insert calls in
\* any order, the canonical string is the reference form of the set of
\* accepted keys (the upper-cased letters passed to insert): that set sorted
\* ascending and joined with '+'.
C2_EqualsReferenceForm ==
    origin = "default" => as_str(chord) = ReferenceForm(accepted)

\* C2's case: an insert put a new key between two keys inserted earlier
C2_Witness ==
    /\ origin = "default"
    /\ key # NoKey
    /\ ret
    /\ Cardinality(accepted) >= 3
    /\ \E i \in 2..(Len(chord) - 1) : chord[i] = to_ascii_uppercase(key[1])

\* C3: Chord::insert(key) returns true iff it changed the chord: when the
\* upper-cased key is not an uppercase letter or is already a key of the
\* chord it returns false and leaves the canonical string as it was;
\* otherwise it returns true and the key set grows by exactly that key.
C3_InsertReturn ==
    key # NoKey =>
        LET K == to_ascii_uppercase(key[1])
        IN  /\ ret <=> chord # prev
            /\ IF ~(K \in {Upper[i] : i \in 1..Len(Upper)}) \/ K \in KeySet(prev)
               THEN ~ret /\ chord = prev
               ELSE /\ ret
                    /\ KeySet(chord) = KeySet(prev) \cup {K}
                    /\ Cardinality(KeySet(chord)) = Cardinality(KeySet(prev)) + 1

\* C3's case: a lowercase key whose uppercase form the chord holds already
\* was rejected
C3_Witness ==
    /\ key # NoKey
    /\ is_ascii_lowercase(key[1])
    /\ to_ascii_uppercase(key[1]) \in KeySet(prev)
    /\ Len(prev) >= 3
    /\ ~ret

---------------------------------------------------------------------------
(* Parsing: Chord::from_str on a text *)

InitParse ==
    /\ text \in Texts
    /\ parsed = Err
    /\ IdleChord
    /\ IdleDict
    /\ IdleIter
    /\ IdleTui
    /\ pc = "parse"

Parse ==
    /\ pc = "parse"
    /\ parsed' = from_str(text)
    /\ pc' = "parsed"
    /\ UNCHANGED <<text, chordVars, dictVars, iterVars, tuiVars>>

NextParse == Parse

SpecParse == InitParse /\ [][NextParse]_vars

\* C19: for every non-empty chord reached from the empty chord by
\* Chord::insert calls, parsing its canonical string succeeds and returns a
\* chord equal to it, and Chord::insert of any key into the parsed chord
\* gives the chord and the return value it gives on the chord itself.
C19_CanonicalStringReparses ==
    (origin = "default" /\ chord # default /\ text = as_str(chord)) =>
        /\ parsed.ok
        /\ parsed.value = chord
        /\ \A k \in Keys : insert(parsed.value, k) = insert(chord, k)

\* C19's case: a chord of three keys built by insert calls was parsed back
\* from its canonical string
C19_Witness ==
    /\ origin = "default"
    /\ Cardinality(accepted) = 3
    /\ Len(as_str(chord)) = 5
    /\ text = as_str(chord)
    /\ parsed.ok

---------------------------------------------------------------------------
(* Claims about Chord::from_str, checked under SpecParse *)

\* the keys a text denotes: its characters that are neither the separator
\* nor whitespace, upper-cased
Denoted(t) ==
    {to_ascii_uppercase(t[i]) :
        i \in {j \in 1..Len(t) : t[j] # "+" /\ ~is_whitespace(t[j])}}

\* the pieces of t between the separators, each as the pair of the
\* positions that bound it (a separator, or 0, or Len + 1)
Pieces(t, sep) ==
    LET cuts == {i \in 1..Len(t) : t[i] = sep} \cup {0, Len(t) + 1}
    IN  {b \in cuts \X cuts :
            b[1] < b[2] /\ ~\E c \in cuts : b[1] < c /\ c < b[2]}

\* the '+'-separated segments of a text
SegmentBounds(t) == Pieces(t, "+")

\* the length of the segment between the bounds b once its surrounding
\* whitespace is removed
TrimmedLen(t, b) ==
    LET inner == {i \in (b[1] + 1)..(b[2] - 1) : ~is_whitespace(t[i])}
    IN  IF inner = {} THEN 0
        ELSE (CHOOSE i \in inner : \A j \in inner : j <= i) - Min(inner) + 1

AllWhitespace(t) == \A i \in 1..Len(t) : is_whitespace(t[i])

\* C4: parsing is insensitive to key order, letter case, whitespace around
\* the segments and repeated keys: the canonical string of the result is the
\* set of keys the text denotes, upper-cased, deduplicated, sorted ascending
\* and joined with '+', so two texts denoting the same set parse to equal
\* chords.
C4_ParseNormalizes ==
    (pc = "parsed" /\ parsed.ok) =>
        as_str(parsed.value) = ReferenceForm(Denoted(text))

\* C4's case: a text with whitespace, a lowercase key and its keys in
\* descending order was parsed
C4_Witness ==
    /\ pc = "parsed"
    /\ parsed.ok
    /\ \E i \in 1..Len(text) : is_whitespace(text[i])
    /\ \E i, j \in 1..Len(text) :
          /\ i < j
          /\ is_ascii_lowercase(text[i])
          /\ is_ascii_uppercase(to_ascii_uppercase(text[j]))
          /\ Code(to_ascii_uppercase(text[i])) > Code(to_ascii_uppercase(text[j]))

\* C5: parsing fails if and only if at least one '+'-separated segment of
\* the text, after trimming surrounding whitespace, is not exactly one
\* character; nothing else makes it fail.
C5_ParseFailsIffBadSegment ==
    pc = "parsed" =>
        (~parsed.ok <=> \E b \in SegmentBounds(text) : TrimmedLen(text, b) # 1)

\* C5's case: a text with a two-character segment beside a good one, as
\* "AA+B", was rejected
C5_Witness ==
    /\ pc = "parsed"
    /\ ~parsed.ok
    /\ \E b \in SegmentBounds(text) : TrimmedLen(text, b) = 2
    /\ \E b \in SegmentBounds(text) : TrimmedLen(text, b) = 1

\* C9: every chord a successful parse returns satisfies the file-format
\* grammar: only uppercase letters, separated by single '+', in strictly
\* ascending order.
C9_ParsedChordInGrammar ==
    (pc = "parsed" /\ parsed.ok) =>
        /\ IsLettersJoinedByPlus(as_str(parsed.value))
        /\ StrictlyAscending(as_str(parsed.value))

\* C10: parsing empty or whitespace-only text yields the empty chord, whose
\* canonical string is the empty string, instead of failing.
C10_BlankParsesToEmptyChord ==
    (pc = "parsed" /\ AllWhitespace(text)) =>
        (parsed.ok /\ as_str(parsed.value) = as_str(default))

---------------------------------------------------------------------------
(* The dictionary and its file *)

ReadFromFile ==
    /\ pc \in {"init", "saved"}
    /\ loaded' = read_from_file(file)
    /\ dict' = IF read_from_file(file).ok THEN read_from_file(file).value ELSE dict
    /\ pc' = IF ~read_from_file(file).ok THEN "failed"
             ELSE IF pc = "saved" THEN "reloaded" ELSE "loaded"
    /\ UNCHANGED <<file, saved, out, op, chordVars, parseVars, iterVars, tuiVars>>

\* the results of a save: Ok, File::create returning Err, write_all
\* returning Err
SaveResults == {"ok", "create_err", "write_err"}

\* chords.write_to_file(path): File::create truncates the file or fails and
\* leaves it; write_all writes the whole content, or fails after the first
\* `written` characters of it
WriteToFile(result, written) ==
    /\ pc \in {"loaded", "edit"}
    /\ written \in 0..Len(write_to_file(dict))
    /\ result = "ok" => written = Len(write_to_file(dict))
    /\ result = "create_err" => written = 0
    /\ result = "write_err" => written < Len(write_to_file(dict))
    /\ file' = IF result = "create_err" THEN file
               ELSE File(SubSeq(write_to_file(dict), 1, written))
    /\ saved' = IF result = "ok" THEN dict ELSE saved
    /\ pc' = IF result = "ok" THEN "saved" ELSE "save_failed"
    /\ UNCHANGED <<dict, loaded, out, op, chordVars, parseVars, iterVars, tuiVars>>

\* Chords::insert of the chord being edited
ChordsInsert(word) ==
    /\ pc \in {"edit", "loaded"}
    /\ Cardinality(DOMAIN dict \cup {chord}) <= MaxEntries
    /\ dict' = map_insert(dict, chord, word).map
    /\ out' = map_insert(dict, chord, word).old
    /\ op' = "insert"
    /\ pc' = "edit"
    /\ UNCHANGED <<file, loaded, saved, chordVars, parseVars, iterVars, tuiVars>>

\* Chords::remove of the chord being edited
ChordsRemove ==
    /\ pc \in {"edit", "loaded"}
    /\ dict' = map_remove(dict, chord).map
    /\ out' = map_remove(dict, chord).old
    /\ op' = "remove"
    /\ pc' = "edit"
    /\ UNCHANGED <<file, loaded, saved, chordVars, parseVars, iterVars, tuiVars>>

\* a dictionary file of any content, or none, is read, written back and
\* read again
InitFile ==
    /\ file \in {NoFile} \cup {File(c) : c \in FileContents}
    /\ dict = EmptyMap
    /\ loaded = IoErr
    /\ saved = EmptyMap
    /\ out = None
    /\ op = "none"
    /\ IdleChord
    /\ IdleParse
    /\ IdleIter
    /\ IdleTui
    /\ pc = "init"

NextFile ==
    \/ ReadFromFile
    \/ \E result \in SaveResults : \E written \in 0..Len(write_to_file(dict)) :
          WriteToFile(result, written)

SpecFile == InitFile /\ [][NextFile]_vars

\* a dictionary file of several lines is read, written back and read again
InitLines ==
    /\ file \in {File(c) : c \in LineContents}
    /\ dict = EmptyMap
    /\ loaded = IoErr
    /\ saved = EmptyMap
    /\ out = None
    /\ op = "none"
    /\ IdleChord
    /\ IdleParse
    /\ IdleIter
    /\ IdleTui
    /\ pc = "init"

SpecLines == InitLines /\ [][NextFile]_vars

\* a dictionary is read from an empty file, built by Chords::insert and
\* remove of chords typed key by key, written and read back
Init ==
    /\ file = File(<<>>)
    /\ dict = EmptyMap
    /\ loaded = IoErr
    /\ saved = EmptyMap
    /\ out = None
    /\ op = "none"
    /\ IdleChord
    /\ IdleParse
    /\ IdleIter
    /\ IdleTui
    /\ pc = "init"

Next ==
    \/ \E k \in DictKeys : ChordInsert(k)
    \/ ChordClear
    \/ \E w \in Words : ChordsInsert(w)
    \/ ChordsRemove
    \/ \E result \in SaveResults : \E written \in 0..Len(write_to_file(dict)) :
          WriteToFile(result, written)
    \/ ReadFromFile

Spec == Init /\ [][Next]_vars

---------------------------------------------------------------------------
(* Iterating the dictionary *)

\* the chord passed to Chords::insert and remove is parsed from a text
ChordFromStr(t) ==
    /\ pc \in {"edit", "loaded"}
    /\ from_str(t).ok
    /\ chord' = from_str(t).value
    /\ origin' = "parsed"
    /\ UNCHANGED <<prev, key, ret, accepted, parseVars, dictVars, pc, iterVars, tuiVars>>

\* let it = chords.iter()
Iter ==
    /\ pc \in {"edit", "loaded"}
    /\ dict' = iter(dict).self
    /\ it' = iter(dict).items
    /\ yielded' = <<>>
    /\ UNCHANGED <<file, loaded, saved, out, op, chordVars, parseVars, tuiVars, pc>>

\* it.next() returning Some
IterNext ==
    /\ pc \in {"edit", "loaded"}
    /\ it # <<>>
    /\ yielded' = Append(yielded, Head(it))
    /\ it' = Tail(it)
    /\ UNCHANGED <<chordVars, parseVars, dictVars, tuiVars, pc>>

\* a dictionary is loaded, edited by Chords::insert and remove, and iterated
InitIter ==
    /\ file \in {File(c) : c \in StartFiles}
    /\ dict = EmptyMap
    /\ loaded = IoErr
    /\ saved = EmptyMap
    /\ out = None
    /\ op = "none"
    /\ IdleChord
    /\ IdleParse
    /\ IdleIter
    /\ IdleTui
    /\ pc = "init"

NextIter ==
    \/ ReadFromFile
    \/ \E t \in ChordTexts : ChordFromStr(t)
    \/ \E w \in IterWords : ChordsInsert(w)
    \/ ChordsRemove
    \/ Iter
    \/ IterNext

SpecIter == InitIter /\ [][NextIter]_vars

---------------------------------------------------------------------------
(* Claims about the dictionary file, checked under SpecFile and Spec *)

\* the lines of the file, each with the position it starts after
FileLines ==
    {[at |-> b[1], line |-> SubSeq(file.content, b[1] + 1, b[2] - 1)] :
        b \in Pieces(file.content, "\n")}

HasColon(line) == \E i \in 1..Len(line) : line[i] = ":"

FirstColon(line) == Min({i \in 1..Len(line) : line[i] = ":"})

BeforeFirstColon(line) == SubSeq(line, 1, FirstColon(line) - 1)

AfterFirstColon(line) == SubSeq(line, FirstColon(line) + 1, Len(line))

\* the line has a ':' and the text before the first ':' parses as a chord
WellFormed(line) == HasColon(line) /\ from_str(BeforeFirstColon(line)).ok

ChordOfLine(line) == from_str(BeforeFirstColon(line)).value

\* C6: for a dictionary built by Chords::insert calls, write_to_file
\* followed by read_from_file of the same path gives a dictionary with
\* exactly the same (chord, word) pairs.
C6_RoundTrip ==
    pc = "reloaded" => dict = saved

\* C7: each line is split at its first ':' only: for a line that has a ':'
\* and whose text before the first ':' parses as a chord, the stored word
\* is the whole remainder after that ':', trimmed, further ':' included
\* (the last such line of a chord is the one stored).
C7_WordIsWholeRemainder ==
    pc = "loaded" =>
        \A l \in FileLines :
            (/\ WellFormed(l.line)
             /\ ~\E m \in FileLines :
                    /\ m.at > l.at
                    /\ WellFormed(m.line)
                    /\ ChordOfLine(m.line) = ChordOfLine(l.line))
            => /\ ChordOfLine(l.line) \in DOMAIN dict
               /\ dict[ChordOfLine(l.line)] = trim(AfterFirstColon(l.line))

\* C8: the load is best-effort: read_from_file returns an error only when
\* the file cannot be read; for any content it returns a dictionary whose
\* chords are exactly those of the lines that have a ':' and a chord part
\* that parses, so a dropped line never keeps another line out.
C8_BestEffortLoad ==
    pc \in {"loaded", "failed"} =>
        /\ loaded.ok <=> file.exists
        /\ file.exists =>
              DOMAIN loaded.value =
                  {ChordOfLine(l.line) : l \in {m \in FileLines : WellFormed(m.line)}}

\* C8's case: a file of one well-formed line and one line without ':' was
\* read, and exactly one entry is loaded
C8_Witness ==
    /\ pc = "loaded"
    /\ loaded.ok
    /\ Cardinality(FileLines) = 2
    /\ \E l \in FileLines : WellFormed(l.line)
    /\ \E l \in FileLines : ~HasColon(l.line) /\ l.line # <<>>
    /\ Cardinality(DOMAIN dict) = 1

\* the order of strings by character code: the first string is a proper
\* prefix of the second or has the smaller character where they first differ
RECURSIVE StringLess(_, _)
StringLess(a, b) ==
    IF b = <<>> THEN FALSE
    ELSE IF a = <<>> THEN TRUE
    ELSE IF a[1] = b[1] THEN StringLess(Tail(a), Tail(b))
    ELSE Code(a[1]) < Code(b[1])

\* the (chord, word) pairs of a dictionary
Pairs(m) == {<<c, m[c]>> : c \in DOMAIN m}

\* the pairs of a sequence of pairs
Yields(s) == {s[i] : i \in 1..Len(s)}

\* the keys the chord part of a line denotes
KeysOfLine(line) == Denoted(BeforeFirstColon(line))

\* the word part of a line: the text between its first ':' and the next
\* ':' or the end of the line, without surrounding whitespace
WordOfLine(line) ==
    LET rest == AfterFirstColon(line)
    IN  trim(IF HasColon(rest) THEN BeforeFirstColon(rest) ELSE rest)

\* C14: when several lines of a file have chord parts that parse to the
\* same chord, however spelled ("B+a", "a+B"), the loaded dictionary has
\* one entry for that chord, and its word is the one of the last such line.
C14_LastLineOfChordWins ==
    pc = "loaded" =>
        LET good == {l \in FileLines : WellFormed(l.line)}
        IN  /\ Cardinality(DOMAIN dict) =
                  Cardinality({KeysOfLine(l.line) : l \in good})
            /\ \A l \in good :
                  (~\E m \in good :
                        m.at > l.at /\ KeysOfLine(m.line) = KeysOfLine(l.line))
                  => /\ ReferenceForm(KeysOfLine(l.line)) \in DOMAIN dict
                     /\ dict[ReferenceForm(KeysOfLine(l.line))] = WordOfLine(l.line)

\* C14's case: two lines spell the chord of the keys A and B differently
\* and have different words, and the word of the later one is loaded
C14_Witness ==
    /\ pc = "loaded"
    /\ \E l, m \in FileLines :
          /\ l.at < m.at
          /\ WellFormed(l.line) /\ WellFormed(m.line)
          /\ KeysOfLine(l.line) = {"A", "B"}
          /\ KeysOfLine(m.line) = {"A", "B"}
          /\ BeforeFirstColon(l.line) # BeforeFirstColon(m.line)
          /\ WordOfLine(l.line) # WordOfLine(m.line)
          /\ ~\E n \in FileLines : n.at > m.at
          /\ dict[<<"A", "+", "B">>] = WordOfLine(m.line)

\* the lines "chord: word\n" of the dictionary m from the chord with r - 1
\* smaller chords on, in ascending order of the chord strings
RECURSIVE LinesFrom(_, _)
LinesFrom(m, r) ==
    IF r > Cardinality(DOMAIN m) THEN <<>>
    ELSE LET c == CHOOSE x \in DOMAIN m :
                      Cardinality({y \in DOMAIN m : StringLess(as_str(y), as_str(x))}) = r - 1
         IN  as_str(c) \o <<":", " ">> \o m[c] \o <<"\n">> \o LinesFrom(m, r + 1)

\* C15: after write_to_file the file holds one line per entry, made of the
\* canonical chord string, ':', one space, the word and '\n', in ascending
\* order of the chords, and nothing else: nothing of the content the file
\* had before is left.
C15_FileIsLinesOfEntries ==
    pc = "saved" => (file.exists /\ file.content = LinesFrom(dict, 1))

\* C15's case: a dictionary with the chords "A+B" and "B" was written
\* over the file it was loaded from
C15_Witness ==
    /\ pc = "saved"
    /\ DOMAIN dict = {<<"A", "+", "B">>, <<"B">>}
    /\ Len(split(file.content, "\n")) = 3

\* C17: in every dictionary reached by read_from_file of any content and
\* any Chords::insert and remove calls, every stored word is non-empty and
\* has no leading or trailing whitespace.
C17_WordsNonEmptyTrimmed ==
    pc = "loaded" =>
        \A c \in DOMAIN dict : dict[c] # <<>> /\ trim(dict[c]) = dict[c]

\* C18: a loaded dictionary is a fixed point of saving and loading: the
\* dictionary loaded from any content, written and read back from the same
\* path, is loaded again with the same (chord, word) pairs.
C18_LoadSaveLoadFixedPoint ==
    pc = "reloaded" => (loaded.ok /\ Pairs(loaded.value) = Pairs(saved))

\* C18's case: a dictionary with a chord of two keys and a non-empty word
\* was loaded, written and read back
C18_Witness ==
    /\ pc = "reloaded"
    /\ \E c \in DOMAIN saved : Len(as_str(c)) = 3 /\ saved[c] # <<>>

---------------------------------------------------------------------------
(* Claims about the dictionary's operations, checked under Spec and        *)
(* SpecIter                                                                *)

\* C11: the sequence a Chords::iter call returns, after a load and any
\* Chords::insert and remove calls, has every stored chord exactly once,
\* each with its word, in strictly ascending character-code order of the
\* canonical chord strings (string order: "A+B" before "B").
C11_IterAscendingOnce ==
    [][Iter =>
        /\ Len(it') = Cardinality(DOMAIN dict)
        /\ Yields(it') = Pairs(dict)
        /\ \A i, j \in 1..Len(it') :
               i < j => StringLess(as_str(it'[i][1]), as_str(it'[j][1]))]_vars

\* C11's case: iter was called on a dictionary holding "A+B" and "B" and
\* the returned sequence has "A+B" first
C11_Witness ==
    /\ DOMAIN dict = {<<"A", "+", "B">>, <<"B">>}
    /\ yielded = <<>>
    /\ Len(it) = 2
    /\ it[1][1] = <<"A", "+", "B">>
    /\ it[2][1] = <<"B">>

\* C12: Chords::insert(chord, word) returns the word stored before under
\* chord, or none when chord was not a key; afterwards chord maps to word,
\* the number of entries has grown by one only when chord was new, and
\* every other entry is unchanged.
C12_InsertReturnsPrevious ==
    [][\A w \in Words : ChordsInsert(w) =>
        /\ out' = IF chord \in DOMAIN dict THEN Some(dict[chord]) ELSE None
        /\ chord \in DOMAIN dict'
        /\ dict'[chord] = w
        /\ Cardinality(DOMAIN dict') =
              Cardinality(DOMAIN dict) + (IF chord \in DOMAIN dict THEN 0 ELSE 1)
        /\ \A c \in DOMAIN dict \ {chord} :
               c \in DOMAIN dict' /\ dict'[c] = dict[c]]_vars

\* C12's case: an insert replaced the word of a chord of a dictionary of
\* two entries and returned the other word stored before
C12_Witness ==
    /\ pc = "edit"
    /\ Cardinality(DOMAIN dict) = 2
    /\ chord \in DOMAIN dict
    /\ out.some
    /\ out.value # dict[chord]

\* C13: Chords::remove(chord) returns the stored word and deletes exactly
\* that entry when chord is a key; otherwise it returns none, does not fail
\* and leaves the dictionary unchanged; every other entry is unchanged.
C13_RemoveDeletesOnlyThatEntry ==
    [][ChordsRemove =>
        /\ out' = IF chord \in DOMAIN dict THEN Some(dict[chord]) ELSE None
        /\ DOMAIN dict' = DOMAIN dict \ {chord}
        /\ \A c \in DOMAIN dict' : dict'[c] = dict[c]
        /\ chord \notin DOMAIN dict => dict' = dict
        /\ pc' = "edit"]_vars

\* C13's case: the last call on the dictionary was a remove that deleted
\* one entry of two and returned its word
C13_Witness ==
    /\ pc = "edit"
    /\ op = "remove"
    /\ out.some
    /\ chord \notin DOMAIN dict
    /\ Cardinality(DOMAIN dict) = 1

\* C16: the sequence of one Chords::iter call is a snapshot: a later
\* Chords::insert or remove leaves what it has yielded and what it has left
\* unchanged; the call leaves the dictionary unchanged; every call starts
\* from the first entry and holds the pairs of the dictionary at that call.
C16_IterIsSnapshot ==
    [][/\ Iter =>
            /\ dict' = dict
            /\ yielded' = <<>>
            /\ Len(it') = Cardinality(DOMAIN dict')
            /\ Yields(it') = Pairs(dict')
       /\ ((\E w \in IterWords : ChordsInsert(w)) \/ ChordsRemove) =>
            /\ it' = it
            /\ yielded' = yielded
       /\ IterNext =>
            /\ dict' = dict
            /\ yielded' \o it' = yielded \o it]_vars

\* C16's case: an iterator that has yielded its first pair and has one
\* left, while the dictionary it was taken from has changed since
C16_Witness ==
    /\ Len(yielded) = 1
    /\ Len(it) = 1
    /\ Yields(yielded \o it) # Pairs(dict)

---------------------------------------------------------------------------
(* The browser: Tui and its event loop *)

\* the length of the search text typed
MaxSearch == 2

\* the highest row index selected
MaxRow == 2

\* the (word, entry) pairs of the word list, in its iteration order: the
\* entry has an optional rank and an optional chord, given here as displayed
WordList ==
    <<[word |-> <<"a", "b">>, rank |-> Some(<<"1">>), chord |-> Some(<<"A", "+", "B">>)],
      [word |-> <<"b">>, rank |-> None, chord |-> Some(<<"B">>)],
      [word |-> <<"b", "a">>, rank |-> Some(<<"2">>), chord |-> None],
      [word |-> <<"a">>, rank |-> None, chord |-> None]>>

\* Words::iter: the pairs of the list, the same at every call
WordsIter(words) == words

\* str::contains with a string pattern
contains_str(s, t) ==
    \E i \in 0..(Len(s) - Len(t)) : SubSeq(s, i + 1, i + Len(t)) = t

\* Option::map_or(String::new(), to_string)
map_or_empty(o) == IF o.some THEN o.value ELSE <<>>

\* the filter_map and collect of update_rows
RECURSIVE filter_map_rows(_, _)
filter_map_rows(items, pattern) ==
    IF items = <<>> THEN <<>>
    ELSE LET item == Head(items)
             rest == filter_map_rows(Tail(items), pattern)
         IN  IF ~contains_str(item.word, pattern) THEN rest
             ELSE <<<<map_or_empty(item.rank), item.word, map_or_empty(item.chord)>>>>
                      \o rest

\* Tui::update_rows
update_rows(self) ==
    [self EXCEPT !.rows = filter_map_rows(WordsIter(self.words), self.search)]

\* String::pop
pop(s) == IF s = <<>> THEN s ELSE SubSeq(s, 1, Len(s) - 1)

\* String::push
push(s, c) == Append(s, c)

\* Tui::select_previous_row
select_previous_row(self) ==
    [self EXCEPT !.selected =
        IF self.selected.some /\ self.selected.value > 0
        THEN RowAt(self.selected.value - 1)
        ELSE NoRow]

\* Tui::select_next_row
select_next_row(self) ==
    [self EXCEPT !.selected =
        IF self.selected.some THEN RowAt(self.selected.value + 1) ELSE RowAt(0)]

\* Tui::handle_key where Backspace pops without update_rows
handle_key_BackspaceKeepsRows(self, k) ==
    IF k.kind # "press" THEN [self |-> self, quit |-> FALSE]
    ELSE IF k.code = "char" THEN
        IF k.control THEN
            IF k.char = "c" THEN [self |-> self, quit |-> TRUE]
            ELSE IF k.char = "h"
            THEN [self |-> update_rows([self EXCEPT !.search = <<>>]), quit |-> FALSE]
            ELSE [self |-> self, quit |-> FALSE]
        ELSE [self |-> update_rows([self EXCEPT !.search = push(self.search, k.char)]),
              quit |-> FALSE]
    ELSE IF k.code = "backspace"
    THEN [self |-> [self EXCEPT !.search = pop(self.search)], quit |-> FALSE]
    ELSE IF k.code = "up" THEN [self |-> select_previous_row(self), quit |-> FALSE]
    ELSE IF k.code = "down" THEN [self |-> select_next_row(self), quit |-> FALSE]
    ELSE [self |-> self, quit |-> FALSE]

\* Tui::handle_key: the Tui after the key and the value returned
handle_key(self, k) ==
    IF k.kind # "press" THEN [self |-> self, quit |-> FALSE]
    ELSE IF k.code = "char" THEN
        IF k.control THEN
            IF k.char = "c" THEN [self |-> self, quit |-> TRUE]
            ELSE IF k.char = "h"
            THEN [self |-> update_rows([self EXCEPT !.search = <<>>]), quit |-> FALSE]
            ELSE [self |-> self, quit |-> FALSE]
        ELSE [self |-> update_rows([self EXCEPT !.search = push(self.search, k.char)]),
              quit |-> FALSE]
    ELSE IF k.code = "backspace"
    THEN [self |-> update_rows([self EXCEPT !.search = pop(self.search)]), quit |-> FALSE]
    ELSE IF k.code = "up" THEN [self |-> select_previous_row(self), quit |-> FALSE]
    ELSE IF k.code = "down" THEN [self |-> select_next_row(self), quit |-> FALSE]
    ELSE [self |-> self, quit |-> FALSE]

\* the characters of the keys pressed
SearchChars == {"a", "b", "c", "h"}

\* the events read: key events of every kind, code and modifier, and an
\* event that is not a key event
Events ==
    {[type |-> "key", kind |-> kd, code |-> "char", char |-> ch, control |-> ct] :
        kd \in {"press", "release"}, ch \in SearchChars, ct \in BOOLEAN}
    \cup {[type |-> "key", kind |-> kd, code |-> cd, char |-> "", control |-> ct] :
        kd \in {"press", "release"}, cd \in {"backspace", "up", "down", "enter"},
        ct \in BOOLEAN}
    \cup {[type |-> "resize", kind |-> "none", code |-> "none", char |-> "",
           control |-> FALSE]}

\* the area the layout leaves for the cells of the table: none in a terminal
\* too small for the search box and the borders of the table
TableAreas == {"empty", "cells"}

\* the stateful render of ratatui's Table on table_state: with an area for
\* the cells, a selection beyond the last row becomes the last row, and no
\* row is selected when there are no rows; without one the state is left
table_render(rows_, state, area) ==
    IF area = "empty" THEN state
    ELSE IF rows_ = <<>> THEN NoRow
    ELSE IF state.some /\ state.value >= Len(rows_) THEN RowAt(Len(rows_) - 1)
    ELSE state

\* the Tui as the record of its fields
Self == [words |-> WordList, rows |-> rows, search |-> search, selected |-> selected]

\* run_event_loop before the loop: update_rows
RunEventLoop ==
    /\ pc = "start"
    /\ rows' = update_rows(Self).rows
    /\ pc' = "draw"
    /\ UNCHANGED <<search, selected, event, chordVars, parseVars, dictVars, iterVars>>

\* self.draw()?: the search text and the rows are displayed, the render of
\* the table corrects the selection; an Err of the terminal ends the loop
Draw(area, ok) ==
    /\ pc = "draw"
    /\ selected' = table_render(rows, selected, area)
    /\ pc' = IF ok THEN "read" ELSE "failed"
    /\ UNCHANGED <<search, rows, event, chordVars, parseVars, dictVars, iterVars>>

\* read()? returning Err: the loop ends
ReadErr ==
    /\ pc = "read"
    /\ pc' = "failed"
    /\ UNCHANGED <<tuiVars, chordVars, parseVars, dictVars, iterVars>>

\* let event = read(), and handle_key for a key event
ReadEvent(e) ==
    /\ pc = "read"
    /\ (e.type = "key" /\ e.kind = "press" /\ e.code = "char" /\ ~e.control)
          => Len(search) < MaxSearch
    /\ (e.type = "key" /\ e.kind = "press" /\ e.code = "down")
          => (selected.some => selected.value < MaxRow)
    /\ event' = e
    /\ IF e.type = "key"
       THEN /\ search' = handle_key(Self, e).self.search
            /\ rows' = handle_key(Self, e).self.rows
            /\ selected' = handle_key(Self, e).self.selected
            /\ pc' = IF handle_key(Self, e).quit THEN "done" ELSE "draw"
       ELSE /\ UNCHANGED <<search, rows, selected>>
            /\ pc' = "draw"
    /\ UNCHANGED <<chordVars, parseVars, dictVars, iterVars>>

\* Tui::new, then run_event_loop
InitTui ==
    /\ IdleTui
    /\ IdleChord
    /\ IdleParse
    /\ IdleDict
    /\ IdleIter
    /\ pc = "start"

NextTui ==
    \/ RunEventLoop
    \/ \E area \in TableAreas, ok \in BOOLEAN : Draw(area, ok)
    \/ \E e \in Events : ReadEvent(e)
    \/ ReadErr

SpecTui == InitTui /\ [][NextTui]_vars

\* the positions of the word list whose word has the text somewhere in it
Matches(t) ==
    {i \in 1..Len(WordList) :
        \E a, b \in 0..Len(WordList[i].word) :
            a <= b /\ SubSeq(WordList[i].word, a + 1, b) = t}

\* the rows of the matching entries in the order of the list: row r is the
\* entry of the matching position with r - 1 matching positions before it
Matching(t) ==
    [r \in 1..Cardinality(Matches(t)) |->
        LET i == CHOOSE j \in Matches(t) :
                     Cardinality({k \in Matches(t) : k < j}) = r - 1
        IN  <<IF WordList[i].rank.some THEN WordList[i].rank.value ELSE <<>>,
              WordList[i].word,
              IF WordList[i].chord.some THEN WordList[i].chord.value ELSE <<>>>>]

\* the key presses that edit the search text: a character without Control,
\* Backspace, Ctrl+H
EditsSearch(e) ==
    /\ e.type = "key"
    /\ e.kind = "press"
    /\ \/ e.code = "char" /\ ~e.control
       \/ e.code = "char" /\ e.control /\ e.char = "h"
       \/ e.code = "backspace"

\* C20: in the event loop, at every draw the rows are exactly the entries
\* of the word list whose word contains the search text, in the order of
\* the list; a key press that edits the search text (a character without
\* Control appends it, Backspace drops the last character, Ctrl+H empties
\* it) has the rows recomputed before the next draw; every other event,
\* and every other step of the loop, leaves the search text and the rows
\* unchanged.
C20_RowsMatchSearchAtDraw ==
    [][/\ pc' = "draw" => rows' = Matching(search')
       /\ (pc = "read" /\ pc' \in {"draw", "done"} /\ EditsSearch(event')) =>
            /\ search' = IF event'.code = "backspace"
                            THEN SubSeq(search, 1, Len(search) - 1)
                          ELSE IF event'.control THEN <<>>
                          ELSE search \o <<event'.char>>
            /\ rows' = Matching(search')
       /\ (pc # "start" /\ ~(pc = "read" /\ pc' \in {"draw", "done"} /\ EditsSearch(event'))) =>
            /\ search' = search
            /\ rows' = rows]_vars

\* C20's case: after a press of Backspace that left the search text "b"
\* the loop is about to draw the three entries that contain "b", out of four
C20_Witness ==
    /\ pc = "draw"
    /\ event.kind = "press"
    /\ event.code = "backspace"
    /\ search = <<"b">>
    /\ Len(rows) = 3
    /\ rows[1][2] = <<"a", "b">>
    /\ rows[3][2] = <<"b", "a">>

=============================================================================
